---- MODULE Spec2Model ----
(***************************************************************************)
(* Sendzap: the two WhatsApp proposal wizards (/twilio/whatsapp and        *)
(* /twilio/webhook), the direct submit endpoint (/flow/submit) and the     *)
(* session stores they keep, modelled from src/app.py.                     *)
(*                                                                         *)
(* A text is a sequence of one-character strings, so that strip, lower,    *)
(* len, re.findall(r"\d+") and the email pattern are computed character by *)
(* character as the code computes them.                                    *)
(***************************************************************************)
EXTENDS Integers, Sequences, FiniteSets, TLC

VARIABLES
    now,          \* the clock read by _now() (seconds)
    sendgrid_on,  \* SENDGRID_API_KEY and FROM_EMAIL are both set (read once at import)
    _sessions,    \* /twilio/whatsapp store: sender -> [state, draft, updated_at]
    SESSIONS,     \* /twilio/webhook store: sender -> [step, seller_phone, client, items, notes]
    req,          \* the request handled last: [endpoint, from, at (the time it came),
                  \*   popped (the senders whose sessions its cleanup dropped)]
    resp,         \* the reply to it: [kind, detail]
    submitted,    \* the quantity map the request handed to compute_quote (NoItems if none)
    mail,         \* the call of send_email_sendgrid the request made: [status, to, cc]
    inflight,     \* the requests parked at the await of their body / form:
                  \*   [pending, base (the stores when the first of them came),
                  \*    ran (those that already resumed, in that order)]
    quote_call    \* one call of compute_quote: [items, err, out]

vars == <<now, sendgrid_on, _sessions, SESSIONS, req, resp, submitted, mail, inflight, quote_call>>

---------------------------------------------------------------------------
(* Bounds of the model *)

\* the clock stops advancing here
MaxNow == 14400

\* how many requests are delivered concurrently
MaxInFlight == 2

---------------------------------------------------------------------------
(* Program constants *)

SESSION_TTL_SECONDS == 2 * 60 * 60

CATALOG == <<"lampadas", "interruptores", "sensores", "modulos",
             "contatoras", "irrigacao", "central_comando", "comando_voz">>

KEY_BY_INDEX == [i \in 1..Len(CATALOG) |-> CATALOG[i]]

CATALOG_TO_SKU == [lampadas |-> "lamp_smart", interruptores |-> "switch_smart",
                   sensores |-> "sensor_presence", modulos |-> "relay_2ch",
                   contatoras |-> "relay_4ch", irrigacao |-> "smart_plug",
                   central_comando |-> "relay_1ch", comando_voz |-> "ir_tv"]

WIZARD_ITEMS_ORDER == <<"lamp_smart", "relay_2ch", "sensor_presence">>

\* the upper limit of a quantity in state QTY (q > 100000 is rejected)
QTY_MAX == 100000

\* parse_int_0_99 accepts 0..99
ITEM_MAX == 99

---------------------------------------------------------------------------
(* Texts *)

\* Python's None where a text may stand: no text of one-character strings equals it
None == <<"None">>

\* truthiness of an optional text: None and "" are falsy
truthy(t) == t # None /\ t # <<>>

Digits == {"0", "1", "2", "3", "4", "5", "6", "7", "8", "9"}

Whitespace == {" ", "\t", "\n"}

UpperToLower == [A |-> "a", B |-> "b", C |-> "c", D |-> "d", E |-> "e", F |-> "f",
                 G |-> "g", H |-> "h", I |-> "i", J |-> "j", K |-> "k", L |-> "l",
                 M |-> "m", N |-> "n", O |-> "o", P |-> "p", Q |-> "q", R |-> "r",
                 S |-> "s", T |-> "t", U |-> "u", V |-> "v", W |-> "w", X |-> "x",
                 Y |-> "y", Z |-> "z"]

\* str.lower()
lower(t) == [i \in 1..Len(t) |->
                IF t[i] \in DOMAIN UpperToLower THEN UpperToLower[t[i]] ELSE t[i]]

RECURSIVE lstrip(_)
lstrip(t) == IF t # <<>> /\ Head(t) \in Whitespace THEN lstrip(Tail(t)) ELSE t

RECURSIVE rstrip(_)
rstrip(t) == IF t # <<>> /\ t[Len(t)] \in Whitespace
             THEN rstrip(SubSeq(t, 1, Len(t) - 1)) ELSE t

\* str.strip()
strip(t) == rstrip(lstrip(t))

\* t.startswith(p)
startswith(t, p) == Len(t) >= Len(p) /\ SubSeq(t, 1, Len(p)) = p

\* str.replace(old, "") for a non-empty old
RECURSIVE remove_all(_, _)
remove_all(t, old) ==
    IF t = <<>> THEN <<>>
    ELSE IF startswith(t, old) THEN remove_all(SubSeq(t, Len(old) + 1, Len(t)), old)
    ELSE <<Head(t)>> \o remove_all(Tail(t), old)

\* str.isdigit()
isdigit(t) == t # <<>> /\ \A i \in 1..Len(t) : t[i] \in Digits

DigitValue == [d \in Digits |->
                 CASE d = "0" -> 0 [] d = "1" -> 1 [] d = "2" -> 2 [] d = "3" -> 3
                   [] d = "4" -> 4 [] d = "5" -> 5 [] d = "6" -> 6 [] d = "7" -> 7
                   [] d = "8" -> 8 [] d = "9" -> 9]

\* int() of a run of digits
RECURSIVE int(_)
int(t) == IF t = <<>> THEN 0
          ELSE 10 * int(SubSeq(t, 1, Len(t) - 1)) + DigitValue[t[Len(t)]]

\* re.findall(r"\d+", t): the maximal runs of digits, left to right
RECURSIVE findall_digits(_, _)
findall_digits(t, run) ==
    IF t = <<>> THEN (IF run = <<>> THEN <<>> ELSE <<run>>)
    ELSE IF Head(t) \in Digits THEN findall_digits(Tail(t), Append(run, Head(t)))
    ELSE (IF run = <<>> THEN <<>> ELSE <<run>>) \o findall_digits(Tail(t), <<>>)

\* positions of character c in t
positions(t, c) == {i \in 1..Len(t) : t[i] = c}

\* re.match(r"^[^\s@]+@[^\s@]+\.[^\s@]{2,}$", email.strip())
_is_email(email) ==
    LET e == strip(email)
    IN  /\ \A i \in 1..Len(e) : e[i] \notin Whitespace
        /\ Cardinality(positions(e, "@")) = 1
        /\ \E a \in positions(e, "@") :
              /\ a > 1
              /\ \E d \in positions(e, ".") : d > a + 1 /\ Len(e) - d >= 2

\* _normalize_text
_normalize_text(text) == strip(text)

---------------------------------------------------------------------------
(* Python dicts: a draft's "quantities" is a function on the keys present; *)
(* a quantity map handed to compute_quote keeps its insertion order and is *)
(* a sequence of [sku, qty] entries with distinct skus.                    *)

EmptyDict == [k \in {} |-> 0]

\* d[k] = v
dict_set(d, k, v) == [x \in DOMAIN d \cup {k} |-> IF x = k THEN v ELSE d[x]]

\* d.get(k, default)
dict_get(d, k, default) == IF k \in DOMAIN d THEN d[k] ELSE default

\* the keys of an ordered quantity map
item_keys(items) == {items[i].sku : i \in 1..Len(items)}

\* items.get(sku, 0)
items_get(items, sku) ==
    IF sku \in item_keys(items)
    THEN (CHOOSE e \in {items[i] : i \in 1..Len(items)} : e.sku = sku).qty
    ELSE 0

\* items[sku] = qty: replaces in place, or appends a new key
items_set(items, sku, qty) ==
    IF sku \in item_keys(items)
    THEN [i \in 1..Len(items) |->
            IF items[i].sku = sku THEN [sku |-> sku, qty |-> qty] ELSE items[i]]
    ELSE Append(items, [sku |-> sku, qty |-> qty])

\* list(dict.fromkeys(xs)): unique, first-seen order
RECURSIVE unique_keep_order(_)
unique_keep_order(xs) ==
    IF xs = <<>> THEN <<>>
    ELSE LET front == unique_keep_order(SubSeq(xs, 1, Len(xs) - 1))
             last  == xs[Len(xs)]
         IN  IF \E i \in 1..Len(front) : front[i] = last THEN front
             ELSE Append(front, last)

---------------------------------------------------------------------------
(* Texts that occur as commands, as configuration and as inputs *)

T_cancelar  == <<"c", "a", "n", "c", "e", "l", "a", "r">>
T_cancel    == <<"c", "a", "n", "c", "e", "l">>
T_cancela   == <<"c", "a", "n", "c", "e", "l", "a">>
T_sair      == <<"s", "a", "i", "r">>
T_reset     == <<"r", "e", "s", "e", "t">>
T_menu      == <<"m", "e", "n", "u">>
T_inicio    == <<"i", "n", "i", "c", "i", "o">>
T_start     == <<"s", "t", "a", "r", "t">>
T_iniciar   == <<"i", "n", "i", "c", "i", "a", "r">>
T_nova      == <<"n", "o", "v", "a">>
T_novo      == <<"n", "o", "v", "o">>
T_continuar == <<"c", "o", "n", "t", "i", "n", "u", "a", "r">>
T_retomar   == <<"r", "e", "t", "o", "m", "a", "r">>
T_editar    == <<"e", "d", "i", "t", "a", "r">>
T_edit      == <<"e", "d", "i", "t">>
T_confirmar == <<"c", "o", "n", "f", "i", "r", "m", "a", "r">>
T_confirm   == <<"c", "o", "n", "f", "i", "r", "m">>
T_ajuda     == <<"a", "j", "u", "d", "a">>
T_help      == <<"h", "e", "l", "p">>
T_proposta  == <<"p", "r", "o", "p", "o", "s", "t", "a">>
T_orcamento == <<"o", "r", "c", "a", "m", "e", "n", "t", "o">>
T_sim       == <<"s", "i", "m">>
T_yes       == <<"y", "e", "s">>
T_nao       == <<"n", "a", "o">>
T_whatsapp  == <<"w", "h", "a", "t", "s", "a", "p", "p", ":">>

\* an email address, and the same address in another letter case
T_email       == <<"a", "@", "b", ".", "c", "o">>
T_email_upper == <<"A", "@", "B", ".", "c", "o">>

---------------------------------------------------------------------------
(* Configuration (environment) *)

\* SELLERS_JSON: seller phone -> [name, email]; one seller is configured
SELLERS == [p \in {<<"+", "1">>} |-> [name |-> <<"V", "1">>, email |-> T_email]]

\* json.loads(SELLERS_JSON).get(seller_phone) and its "email", None if unknown
resolve_seller_email(seller_phone) ==
    IF seller_phone \in DOMAIN SELLERS THEN SELLERS[seller_phone].email ELSE None

---------------------------------------------------------------------------
(* The pipeline: compute_quote, render_pdf_reportlab, send_email_sendgrid  *)

NoMail == [status |-> "none", to |-> None, cc |-> None]

NoSubmit == [called |-> FALSE, items |-> <<>>]

\* what the collaborators do during one request: pydantic accepts the client
\* (EmailStr), reportlab renders, SendGrid answers 200/202
Outcomes == [email_valid : BOOLEAN, render_ok : BOOLEAN, http_ok : BOOLEAN]

AllFine == [email_valid |-> TRUE, render_ok |-> TRUE, http_ok |-> TRUE]

\* UNIT_PRICES, in whole reais (every price of the table is a whole number)
UNIT_PRICES == [lamp_smart |-> 180, led_strip |-> 150, dimmer |-> 220,
                switch_smart |-> 150, relay_1ch |-> 90, relay_2ch |-> 140,
                relay_4ch |-> 230, smart_plug |-> 120, ir_ac |-> 220, ir_tv |-> 180,
                blinds |-> 1200, sensor_presence |-> 220, sensor_door |-> 150,
                sensor_leak |-> 180, siren |-> 300]

\* the rates, in hundredths (0.40 and 0.10), and the number of installments
INSTALL_RATE_DEFAULT == 40

DISCOUNT_CASH == 10

CARD_INSTALLMENTS == 3

\* A float amount of money is r whole reais and u ten-thousandths of a real
\* (0 <= u < 10000).  The binary rounding of a float operation is an error
\* of -1, 0 or +1 ten-thousandth added to its exact result: far more than a
\* double loses on these magnitudes, so every outcome of the float
\* arithmetic is among the outcomes of the model.
norm(r, u) == [r |-> r + (u \div 10000), u |-> u % 10000]

\* float(n) of a whole number
whole(n) == [r |-> n, u |-> 0]

\* a + b
add(a, b) == norm(a.r + b.r, a.u + b.u)

\* the rounding error e of one float operation
perturb(a, e) == norm(a.r, a.u + e)

\* a * (pct / 100)
times_rate(a, pct) ==
    LET q == a.r \div 100
        s == a.r % 100
    IN  norm(q * pct + ((s * pct) \div 100),
             ((s * pct) % 100) * 100 + ((a.u * pct) \div 100))

\* a / n
divide(a, n) == norm(a.r \div n, ((a.r % n) * 10000 + a.u) \div n)

\* rounding that cuts the digits after the second decimal
money_bug(x) == [r |-> x.r, c |-> x.u \div 100]

\* money: round(float(x), 2), ties to even; the result is r reais and c cents
money(x) ==
    LET c   == x.u \div 100
        rem == x.u % 100
        up  == rem > 50 \/ (rem = 50 /\ c % 2 = 1)
        c2  == IF up THEN c + 1 ELSE c
    IN  [r |-> x.r + (c2 \div 100), c |-> c2 % 100]

\* UNIT_PRICES.get(sku, 0.0)
unit_price(sku) == IF sku \in DOMAIN UNIT_PRICES THEN UNIT_PRICES[sku] ELSE 0

\* a loop that appends a line for every entry
priced_bug(items) == SelectSeq(items, LAMBDA e : e.qty >= 0)

\* the entries the loop of compute_quote does not skip (qty_int <= 0: continue)
priced(items) == SelectSeq(items, LAMBDA e : e.qty > 0)

\* material_total: the sum of qty * unit over the lines (exact: whole numbers)
RECURSIVE material_sum(_)
material_sum(lines) ==
    IF lines = <<>> THEN 0
    ELSE material_sum(SubSeq(lines, 1, Len(lines) - 1))
         + lines[Len(lines)].qty * unit_price(lines[Len(lines)].sku)

\* labor_total: the sum of qty * unit * INSTALL_RATE_DEFAULT over the lines
RECURSIVE labor_sum(_)
labor_sum(lines) ==
    IF lines = <<>> THEN whole(0)
    ELSE add(labor_sum(SubSeq(lines, 1, Len(lines) - 1)),
             times_rate(whole(lines[Len(lines)].qty * unit_price(lines[Len(lines)].sku)),
                        INSTALL_RATE_DEFAULT))

\* the rounding errors of the float operations of one compute_quote call
FloatErrors == [labor : {-1, 0, 1}, grand : {-1, 0, 1}, cash : {-1, 0, 1}, inst : {-1, 0, 1}]

NoError == [labor |-> 0, grand |-> 0, cash |-> 0, inst |-> 0]

\* an installment equal to the whole total
installment_bug(grand_total, e) == perturb(grand_total, e)

\* installment_value = grand_total / CARD_INSTALLMENTS
installment(grand_total, e) == perturb(divide(grand_total, CARD_INSTALLMENTS), e)

\* compute_quote: the breakdown (one line per entry with qty > 0, in map
\* order) and the totals, each rounded once when reported
compute_quote(items, err) ==
    LET lines             == priced(items)
        material_total    == whole(material_sum(lines))
        labor_total       == perturb(labor_sum(lines), err.labor)
        grand_total       == perturb(add(material_total, labor_total), err.grand)
        cash_total        == perturb(times_rate(grand_total, 100 - DISCOUNT_CASH), err.cash)
        installment_value == installment(grand_total, err.inst)
    IN  [breakdown |->
            [i \in 1..Len(lines) |->
                [sku |-> lines[i].sku, qty |-> lines[i].qty,
                 unit_price |-> money(whole(unit_price(lines[i].sku))),
                 material |-> money(whole(lines[i].qty * unit_price(lines[i].sku)))]],
         totals |->
            [material_total |-> money(material_total),
             labor_total |-> money(labor_total),
             grand_total |-> money(grand_total),
             cash_total |-> money(cash_total),
             card_installments |-> CARD_INSTALLMENTS,
             card_installment_value |-> money(installment_value)]]

\* EmailStr: the validated address, its domain in lower case
EmailStr(email) ==
    LET at == CHOOSE a \in positions(email, "@") : \A b \in positions(email, "@") : b <= a
    IN  SubSeq(email, 1, at) \o lower(SubSeq(email, at + 1, Len(email)))

\* send_email_sendgrid: dry run without credentials, RuntimeError on a
\* status other than 200/202; cc goes into the payload only if truthy
send_email_sendgrid(to_email, cc_email, http_ok) ==
    LET cc == IF truthy(cc_email) THEN cc_email ELSE None
    IN  IF ~sendgrid_on
        THEN [raised |-> FALSE, sent |-> FALSE,
              mail |-> [status |-> "dry_run", to |-> to_email, cc |-> None]]
        ELSE IF ~http_ok
        THEN [raised |-> TRUE, sent |-> FALSE,
              mail |-> [status |-> "error", to |-> to_email, cc |-> cc]]
        ELSE [raised |-> FALSE, sent |-> TRUE,
              mail |-> [status |-> "sent", to |-> to_email, cc |-> cc]]

\* flow_submit(payload): quote, render, resolve the seller, send.
\* raised: "none", "Exception" (render, outside the try) or "HTTPException" (send)
flow_submit(payload, o) ==
    LET quote        == compute_quote(payload.items, NoError)
        sub          == [called |-> TRUE, items |-> payload.items]
        seller_email == resolve_seller_email(payload.seller_phone)
        send_result  == send_email_sendgrid(payload.client.email, seller_email, o.http_ok)
    IN  IF ~o.render_ok
        THEN [raised |-> "Exception", detail |-> "render", submitted |-> sub,
              mail |-> NoMail, sent |-> FALSE, cc |-> None, items_count |-> 0]
        ELSE IF send_result.raised
        THEN [raised |-> "HTTPException", detail |-> "sendgrid", submitted |-> sub,
              mail |-> send_result.mail, sent |-> FALSE, cc |-> None, items_count |-> 0]
        ELSE [raised |-> "none", detail |-> "ok", submitted |-> sub,
              mail |-> send_result.mail, sent |-> send_result.sent,
              cc |-> seller_email, items_count |-> Len(quote.breakdown)]

---------------------------------------------------------------------------
(* The /twilio/whatsapp wizard *)

_now == now

EmptyDraft == [client_name |-> None, client_email |-> None,
               selected_keys |-> <<>>, quantities |-> EmptyDict]

\* the session _get_session creates
NewSession == [state |-> "MENU", draft |-> EmptyDraft, updated_at |-> _now]

\* (t - v.get("updated_at", 0)) > SESSION_TTL_SECONDS
expired(s) == (_now - s.updated_at) > SESSION_TTL_SECONDS

\* the cleanup forgotten: nothing is dropped
_cleanup_sessions_bug(store) == store

\* _cleanup_sessions: drops every expired session of the store
_cleanup_sessions(store) ==
    [k \in {x \in DOMAIN store : ~expired(store[x])} |-> store[k]]

\* _get_session: the store after the lookup; the session is store[seller]
_get_session(store, seller) ==
    LET kept == _cleanup_sessions(store)
    IN  IF seller \in DOMAIN kept THEN kept ELSE (seller :> NewSession) @@ kept

_set_state(s, state) == [s EXCEPT !.state = state, !.updated_at = _now]

\* a reset that forgets the client fields
_reset_draft_bug(s) ==
    [s EXCEPT !.draft.selected_keys = <<>>, !.draft.quantities = EmptyDict,
              !.updated_at = _now]

_reset_draft(s) == [s EXCEPT !.draft = EmptyDraft, !.updated_at = _now]

\* s["updated_at"] = _now()
touch(s) == [s EXCEPT !.updated_at = _now]

\* a lookup that returns the last selected key without a quantity
_next_qty_key_bug(draft) ==
    LET pending == {i \in 1..Len(draft.selected_keys) :
                       draft.selected_keys[i] \notin DOMAIN draft.quantities}
    IN  IF pending = {} THEN "None"
        ELSE draft.selected_keys[CHOOSE i \in pending : \A j \in pending : i >= j]

\* the first selected key without a quantity, None if there is none
_next_qty_key(draft) ==
    LET pending == {i \in 1..Len(draft.selected_keys) :
                       draft.selected_keys[i] \notin DOMAIN draft.quantities}
    IN  IF pending = {} THEN "None"
        ELSE draft.selected_keys[CHOOSE i \in pending : \A j \in pending : i <= j]

\* the global command sets of twilio_whatsapp
WA_CANCEL == {T_cancelar, T_cancel, T_cancela, <<"3">>}

WA_MENU == {T_menu, T_inicio, T_start}

\* what a handler returns: the session, the reply, and the pipeline calls made
Result(s, kind) ==
    [s |-> s, resp |-> [kind |-> kind, detail |-> "none"],
     submitted |-> NoSubmit, mail |-> NoMail]

\* a selection that keeps repeated numbers
chosen_keys_bug(incoming) ==
    LET numbers == findall_digits(incoming, <<>>)
        inrange == SelectSeq(numbers, LAMBDA n : int(n) \in DOMAIN KEY_BY_INDEX)
    IN  [i \in 1..Len(inrange) |-> KEY_BY_INDEX[int(inrange[i])]]

\* the catalog keys a SELECT_ITEMS reply chooses
chosen_keys(incoming) ==
    LET numbers == findall_digits(incoming, <<>>)
        inrange == SelectSeq(numbers, LAMBDA n : int(n) \in DOMAIN KEY_BY_INDEX)
    IN  unique_keep_order([i \in 1..Len(inrange) |-> KEY_BY_INDEX[int(inrange[i])]])

\* the quantity map a confirm builds from the draft
confirm_items(draft) ==
    LET RECURSIVE build(_, _)
        build(i, items) ==
            IF i > Len(draft.selected_keys) THEN items
            ELSE LET k   == draft.selected_keys[i]
                     qty == dict_get(draft.quantities, k, 0)
                     sku == IF k \in DOMAIN CATALOG_TO_SKU THEN CATALOG_TO_SKU[k] ELSE k
                 IN  IF qty <= 0 THEN build(i + 1, items)
                     ELSE build(i + 1, items_set(items, sku, items_get(items, sku) + qty))
    IN  build(1, <<>>)

\* cancel, in any state
wa_cancel(s) == Result(_set_state(_reset_draft(s), "MENU"), "cancelled")

\* a menu command handled like a cancel
wa_menu_command_bug(s) == Result(_set_state(_reset_draft(s), "MENU"), "menu_command")

\* menu / inicio / start, in any state
wa_menu_command(s) == Result(_set_state(s, "MENU"), "menu_command")

\* the reply to a resume that asks a quantity names the pending key
resume_ask_qty(s, k) ==
    [Result(_set_state(s, "QTY"), "resume_ask_qty") EXCEPT !.resp.detail = k]

\* a resume that goes to the summary as soon as items are selected
wa_menu_bug(s, cmd) ==
    LET draft == s.draft
    IN  IF cmd \in {<<"1">>, T_iniciar, T_nova, T_novo}
        THEN Result(_set_state(_reset_draft(s), "CLIENT_NAME"), "ask_name")
        ELSE IF cmd \in {<<"2">>, T_continuar, T_retomar}
        THEN IF ~truthy(draft.client_name)
             THEN Result(_set_state(_reset_draft(s), "CLIENT_NAME"), "no_draft_ask_name")
             ELSE IF ~truthy(draft.client_email)
             THEN Result(_set_state(s, "CLIENT_EMAIL"), "resume_ask_email")
             ELSE IF draft.selected_keys = <<>>
             THEN Result(_set_state(s, "SELECT_ITEMS"), "resume_catalog")
             ELSE Result(_set_state(s, "SUMMARY"), "resume_summary")
        ELSE Result(s, "menu")

\* state MENU
wa_menu(s, cmd) ==
    LET draft == s.draft
    IN  IF cmd \in {<<"1">>, T_iniciar, T_nova, T_novo}
        THEN Result(_set_state(_reset_draft(s), "CLIENT_NAME"), "ask_name")
        ELSE IF cmd \in {<<"2">>, T_continuar, T_retomar}
        THEN IF ~truthy(draft.client_name)
             THEN Result(_set_state(_reset_draft(s), "CLIENT_NAME"), "no_draft_ask_name")
             ELSE IF ~truthy(draft.client_email)
             THEN Result(_set_state(s, "CLIENT_EMAIL"), "resume_ask_email")
             ELSE IF draft.selected_keys = <<>>
             THEN Result(_set_state(s, "SELECT_ITEMS"), "resume_catalog")
             ELSE IF _next_qty_key(draft) # "None"
             THEN resume_ask_qty(s, _next_qty_key(draft))
             ELSE Result(_set_state(s, "SUMMARY"), "resume_summary")
        ELSE Result(s, "menu")

\* state CLIENT_NAME
wa_client_name(s, incoming) ==
    IF Len(incoming) < 2 THEN Result(s, "name_too_short")
    ELSE Result(_set_state(touch([s EXCEPT !.draft.client_name = incoming]),
                           "CLIENT_EMAIL"), "ask_email")

\* an email step that stores any reply
wa_client_email_bug(s, incoming) ==
    Result(_set_state(touch([s EXCEPT !.draft.client_email = incoming]),
                      "SELECT_ITEMS"), "catalog")

\* state CLIENT_EMAIL
wa_client_email(s, incoming) ==
    IF ~_is_email(incoming) THEN Result(s, "email_invalid")
    ELSE Result(_set_state(touch([s EXCEPT !.draft.client_email = incoming]),
                           "SELECT_ITEMS"), "catalog")

\* state SELECT_ITEMS
wa_select_items(s, incoming) ==
    LET chosen == chosen_keys(incoming)
    IN  IF chosen = <<>> THEN Result(s, "select_not_understood")
        ELSE Result(_set_state(touch([s EXCEPT !.draft.selected_keys = chosen,
                                               !.draft.quantities = EmptyDict]),
                               "QTY"), "ask_qty")

\* q > 0: draft["quantities"][k] = q
record_qty(draft, k, q) ==
    [draft EXCEPT !.quantities = dict_set(draft.quantities, k, q)]

\* a zero recorded like any other quantity
drop_key_bug(draft, k) == record_qty(draft, k, 0)

\* q == 0: the pending key leaves the selection
drop_key(draft, k) ==
    [draft EXCEPT !.selected_keys = SelectSeq(draft.selected_keys, LAMBDA x : x # k)]

\* state QTY
wa_qty(s, incoming) ==
    LET k == _next_qty_key(s.draft)
        m == findall_digits(incoming, <<>>)
    IN  IF k = "None" THEN Result(_set_state(s, "SUMMARY"), "summary")
        ELSE IF m = <<>> THEN Result(s, "qty_not_a_number")
        ELSE LET q == int(m[1])
             IN  IF q < 0 \/ q > QTY_MAX THEN Result(s, "qty_invalid")
                 ELSE LET d2 == IF q = 0 THEN drop_key(s.draft, k)
                                ELSE record_qty(s.draft, k, q)
                          s2 == touch([s EXCEPT !.draft = d2])
                      IN  IF _next_qty_key(d2) # "None" THEN Result(s2, "ask_qty")
                          ELSE Result(_set_state(s2, "SUMMARY"), "summary")

\* a success that keeps the draft in SUMMARY
wa_submit_returned_bug(s, r) ==
    [s |-> _set_state(s, "SUMMARY"),
     resp |-> [kind |-> "sent_ok", detail |-> r.detail],
     submitted |-> r.submitted, mail |-> r.mail]

\* confirm succeeded: flow_submit returned
wa_submit_returned(s, r) ==
    [s |-> _set_state(_reset_draft(s), "MENU"),
     resp |-> [kind |-> "sent_ok", detail |-> r.detail],
     submitted |-> r.submitted, mail |-> r.mail]

\* a failure handled like a cancel: the draft is lost
wa_submit_failed_bug(s, detail, sub, m) ==
    [s |-> _set_state(_reset_draft(s), "MENU"),
     resp |-> [kind |-> "submit_failed", detail |-> detail],
     submitted |-> sub, mail |-> m]

\* except HTTPException / except Exception: back to SUMMARY with the draft
wa_submit_failed(s, detail, sub, m) ==
    [s |-> _set_state(s, "SUMMARY"),
     resp |-> [kind |-> "submit_failed", detail |-> detail],
     submitted |-> sub, mail |-> m]

\* confirm in SUMMARY
wa_confirm(s, seller, o) ==
    LET s1      == _set_state(s, "SUBMIT")
        draft   == s1.draft
        items   == confirm_items(draft)
        payload == [seller_phone |-> remove_all(seller, T_whatsapp),
                    client |-> [name |-> draft.client_name,
                                email |-> EmailStr(draft.client_email),
                                phone |-> <<>>, address |-> None],
                    items |-> items, notes |-> None]
        r       == flow_submit(payload, o)
    IN  IF ~o.email_valid THEN wa_submit_failed(s1, "validation", NoSubmit, NoMail)
        ELSE IF r.raised # "none" THEN wa_submit_failed(s1, r.detail, r.submitted, r.mail)
        ELSE wa_submit_returned(s1, r)

\* state SUMMARY
wa_summary(s, seller, cmd, o) ==
    IF cmd \in {T_editar, T_edit, <<"2">>}
    THEN Result(_set_state(s, "SELECT_ITEMS"), "edit_catalog")
    ELSE IF cmd \in {T_confirmar, T_confirm, <<"1">>} THEN wa_confirm(s, seller, o)
    ELSE Result(s, "summary_reprompt")

\* twilio_whatsapp on the session s = _get_session(seller)
whatsapp_step(s, seller, incoming, o) ==
    LET cmd == lower(incoming)
    IN  IF cmd \in WA_CANCEL THEN wa_cancel(s)
        ELSE IF cmd \in WA_MENU THEN wa_menu_command(s)
        ELSE IF s.state = "MENU" THEN wa_menu(s, cmd)
        ELSE IF s.state = "CLIENT_NAME" THEN wa_client_name(s, incoming)
        ELSE IF s.state = "CLIENT_EMAIL" THEN wa_client_email(s, incoming)
        ELSE IF s.state = "SELECT_ITEMS" THEN wa_select_items(s, incoming)
        ELSE IF s.state = "QTY" THEN wa_qty(s, incoming)
        ELSE IF s.state = "SUMMARY" THEN wa_summary(s, seller, cmd, o)
        ELSE Result(_set_state(s, "MENU"), "menu")

---------------------------------------------------------------------------
(* The /twilio/webhook wizard (linear) *)

\* the session get_session creates
NewLinearSession(user_id) ==
    [step |-> "idle",
     seller_phone |-> remove_all(remove_all(user_id, T_whatsapp), <<" ">>),
     client |-> [name |-> <<>>, email |-> <<>>, phone |-> <<>>, address |-> <<>>],
     items |-> [i \in 1..Len(WIZARD_ITEMS_ORDER) |->
                  [sku |-> WIZARD_ITEMS_ORDER[i], qty |-> 0]],
     notes |-> <<>>]

\* get_session: the store after the lookup
get_session(store, user_id) ==
    IF user_id \in DOMAIN store THEN store ELSE (user_id :> NewLinearSession(user_id)) @@ store

\* reset_session
reset_session(store, user_id) == [k \in DOMAIN store \ {user_id} |-> store[k]]

\* parse_int_0_99: -1 stands for None
parse_int_0_99(text) ==
    LET t == strip(text)
    IN  IF ~isdigit(t) THEN -1
        ELSE IF 0 <= int(t) /\ int(t) <= ITEM_MAX THEN int(t) ELSE -1

\* next_item_key: "None" outside WIZARD_ITEMS_ORDER
next_item_key(idx) ==
    IF 0 <= idx /\ idx < Len(WIZARD_ITEMS_ORDER) THEN WIZARD_ITEMS_ORDER[idx + 1] ELSE "None"

\* the steps "items_<idx>" and int(step.split("_")[1])
ItemSteps == <<"items_0", "items_1", "items_2">>

item_step_index(step) == (CHOOSE i \in 1..Len(ItemSteps) : ItemSteps[i] = step) - 1

\* the global command sets of twilio_webhook
WH_CANCEL == {T_cancelar, T_cancel, T_sair, T_reset}

WH_HELP == {T_ajuda, T_help, <<"?">>}

\* what the linear handler returns: the store, the reply, the pipeline calls made
LinearResult(store, kind) ==
    [store |-> store, resp |-> [kind |-> kind, detail |-> "none"],
     submitted |-> NoSubmit, mail |-> NoMail]

\* the "evita CC duplicado" rule of the confirm step
dedup_cc(seller_email, client_email) ==
    IF truthy(seller_email) /\ lower(strip(seller_email)) = lower(strip(client_email))
    THEN None ELSE seller_email

\* the except branch of the confirm step: the session is kept as it is
wh_send_failed(store, user_id, detail, sub, m) ==
    [store |-> store, resp |-> [kind |-> "send_failed", detail |-> detail],
     submitted |-> sub, mail |-> m]

\* a success that keeps the session at step confirm
wh_send_returned_bug(store, user_id, sub, m) ==
    [store |-> store,
     resp |-> [kind |-> "sent_ok", detail |-> "ok"], submitted |-> sub, mail |-> m]

\* after the try of the confirm step: reset_session
wh_send_returned(store, user_id, sub, m) ==
    [store |-> reset_session(store, user_id),
     resp |-> [kind |-> "sent_ok", detail |-> "ok"], submitted |-> sub, mail |-> m]

\* "sim" at step confirm
wh_confirm(store, user_id, o) ==
    LET s            == store[user_id]
        seller_email == dedup_cc(resolve_seller_email(s.seller_phone), s.client.email)
        sub          == [called |-> TRUE, items |-> s.items]
        send_result  == send_email_sendgrid(s.client.email, seller_email, o.http_ok)
    IN  IF ~o.render_ok THEN wh_send_failed(store, user_id, "render", sub, NoMail)
        ELSE IF send_result.raised
        THEN wh_send_failed(store, user_id, "sendgrid", sub, send_result.mail)
        ELSE wh_send_returned(store, user_id, sub, send_result.mail)

\* steps items_0 .. items_2
wh_items(store, user_id, body) ==
    LET s   == store[user_id]
        idx == item_step_index(s.step)
        n   == parse_int_0_99(body)
        key == next_item_key(idx)
        s2  == IF key # "None" THEN [s EXCEPT !.items = items_set(s.items, key, n)] ELSE s
    IN  IF n = -1 THEN LinearResult(store, "item_invalid")
        ELSE IF idx + 1 < Len(WIZARD_ITEMS_ORDER)
        THEN LinearResult([store EXCEPT ![user_id] = [s2 EXCEPT !.step = ItemSteps[idx + 2]]],
                          "ask_item")
        ELSE LinearResult([store EXCEPT ![user_id] = [s2 EXCEPT !.step = "notes"]],
                          "ask_notes")

\* twilio_webhook on the store after get_session(from_)
webhook_step(store, user_id, body, o) ==
    LET s    == store[user_id]
        text == strip(lower(body))
        set(s2) == [store EXCEPT ![user_id] = s2]
    IN  IF text \in WH_CANCEL
        THEN LinearResult(reset_session(store, user_id), "cancelled")
        ELSE IF text \in WH_HELP THEN LinearResult(store, "help")
        ELSE IF s.step = "idle"
        THEN IF text \in {T_nova, T_iniciar, T_proposta, T_orcamento}
             THEN LinearResult(set([s EXCEPT !.step = "client_name"]), "ask_name")
             ELSE LinearResult(store, "idle_hint")
        ELSE IF s.step = "client_name"
        THEN IF Len(body) < 2 THEN LinearResult(store, "name_invalid")
             ELSE LinearResult(set([s EXCEPT !.client.name = body,
                                             !.step = "client_email"]), "ask_email")
        ELSE IF s.step = "client_email"
        THEN IF positions(body, "@") = {} \/ positions(body, ".") = {}
             THEN LinearResult(store, "email_invalid")
             ELSE LinearResult(set([s EXCEPT !.client.email = body,
                                             !.step = "client_phone"]), "ask_phone")
        ELSE IF s.step = "client_phone"
        THEN IF Len(body) < 8 THEN LinearResult(store, "phone_invalid")
             ELSE LinearResult(set([s EXCEPT !.client.phone = body,
                                             !.step = "client_address"]), "ask_address")
        ELSE IF s.step = "client_address"
        THEN LinearResult(set([s EXCEPT
                 !.client.address = IF strip(body) = <<"0">> THEN <<>> ELSE strip(body),
                 !.step = "items_0"]), "ask_item")
        ELSE IF \E i \in 1..Len(ItemSteps) : ItemSteps[i] = s.step
        THEN wh_items(store, user_id, body)
        ELSE IF s.step = "notes"
        THEN LinearResult(set([s EXCEPT
                 !.notes = IF strip(body) = <<"0">> THEN <<>> ELSE strip(body),
                 !.step = "confirm"]), "preview")
        ELSE IF s.step = "confirm"
        THEN IF text \in {T_nao, <<"n">>}
             THEN LinearResult(set([s EXCEPT !.step = "idle"]), "declined")
             ELSE IF text \notin {T_sim, <<"s">>, T_yes, <<"y">>}
             THEN LinearResult(store, "confirm_reprompt")
             ELSE wh_confirm(store, user_id, o)
        ELSE LinearResult(store, "fallback")

---------------------------------------------------------------------------
(* Inputs.  The input alphabet is ASCII.                                   *)

\* the senders ("From"); the first is in the seller directory
Sender1 == T_whatsapp \o <<"+", "1">>

WA_SENDERS == {Sender1}

WH_SENDERS == {Sender1}

\* message bodies sent to /twilio/whatsapp
WA_BODIES ==
    { T_cancelar, <<" ", "C", "a", "n", "c", "e", "l", " ">>, T_menu,
      <<" ", "I", "n", "i", "c", "i", "o">>, <<"S", "T", "A", "R", "T">>,
      <<"1">>, <<"2">>, <<"3">>, <<"0">>, <<"x">>,
      <<"A", "l">>, T_email_upper,
      <<"3", ",", "1", ",", "3", ",", "9">>,
      <<"1", "0", "0", "0", "0", "0">>, <<"1", "0", "0", "0", "0", "1">>,
      T_confirmar }

\* message bodies sent to /twilio/webhook
WH_BODIES ==
    { T_cancelar, <<" ", "C", "a", "n", "c", "e", "l", " ">>, T_nova,
      T_email_upper, <<"1", "2", "3", "4", "5", "6", "7", "8">>,
      <<"0">>, <<"7">>, <<"s">> }

\* payloads posted to /flow/submit (already validated by FlowSubmit)
FS_PAYLOADS ==
    [seller_phone : {<<"+", "1">>, <<"+", "9">>},
     client : [name : {<<"A", "l">>}, email : {EmailStr(T_email), EmailStr(T_email_upper)},
               phone : {<<>>}, address : {None}],
     items : { <<>>,
               <<[sku |-> "lamp_smart", qty |-> 2]>>,
               <<[sku |-> "relay_2ch", qty |-> 0], [sku |-> "lamp_smart", qty |-> 1]>>,
               <<[sku |-> "custom", qty |-> 3]>>,
               <<[sku |-> "lamp_smart", qty |-> QTY_MAX + 1]>>,
               <<[sku |-> "lamp_smart", qty |-> -1]>> },
     notes : {None}]

---------------------------------------------------------------------------
(* Actions *)

NoRequest == [endpoint |-> "none", from |-> <<>>, at |-> 0, popped |-> {}]

\* no request is in flight
NoneInFlight == [pending |-> <<>>, base |-> [wa |-> EmptyDict, wh |-> EmptyDict], ran |-> <<>>]

\* compute_quote was not called
NoQuote == [items |-> <<>>, err |-> NoError, out |-> <<>>]

\* the process after import: empty stores, no request served yet
Boot ==
    /\ now = 0
    /\ sendgrid_on \in BOOLEAN
    /\ _sessions = EmptyDict
    /\ SESSIONS = EmptyDict
    /\ req = NoRequest
    /\ resp = [kind |-> "none", detail |-> "none"]
    /\ submitted = NoSubmit
    /\ mail = NoMail
    /\ inflight = NoneInFlight

Init ==
    /\ Boot
    /\ quote_call = NoQuote

\* time passes between requests, one TTL at a time
Tick ==
    /\ now + SESSION_TTL_SECONDS <= MaxNow
    /\ now' = now + SESSION_TTL_SECONDS
    /\ UNCHANGED <<sendgrid_on, _sessions, SESSIONS, req, resp, submitted, mail>>
    /\ UNCHANGED <<inflight, quote_call>>

\* the collaborators are consulted only by a confirm
is_wa_confirm(store, seller, incoming) ==
    /\ store[seller].state = "SUMMARY"
    /\ lower(incoming) \in {T_confirmar, T_confirm, <<"1">>}

\* POST /twilio/whatsapp with From = seller, Body = body
TwilioWhatsapp(seller, body) ==
    LET incoming == _normalize_text(body)
        store    == _get_session(_sessions, seller)
    IN  /\ SESSIONS = EmptyDict
        /\ req.endpoint \in {"none", "whatsapp"}
        /\ \E o \in IF is_wa_confirm(store, seller, incoming) THEN Outcomes ELSE {AllFine} :
             LET r == whatsapp_step(store[seller], seller, incoming, o)
             IN  /\ _sessions' = [store EXCEPT ![seller] = r.s]
                 /\ resp' = r.resp
                 /\ submitted' = r.submitted
                 /\ mail' = r.mail
        /\ req' = [endpoint |-> "whatsapp", from |-> seller, at |-> now,
                   popped |-> DOMAIN _sessions \ DOMAIN _cleanup_sessions(_sessions)]
        /\ UNCHANGED <<now, sendgrid_on, SESSIONS, inflight, quote_call>>

is_wh_confirm(store, user_id, body) ==
    /\ store[user_id].step = "confirm"
    /\ strip(lower(body)) \in {T_sim, <<"s">>, T_yes, <<"y">>}

\* POST /twilio/webhook with From = from_raw, Body = body_raw
TwilioWebhook(from_raw, body_raw) ==
    LET from_ == strip(from_raw)
        body  == strip(body_raw)
        store == get_session(SESSIONS, from_)
    IN  /\ _sessions = EmptyDict
        /\ req.endpoint \in {"none", "webhook"}
        /\ from_ # <<>>
        /\ \E o \in IF is_wh_confirm(store, from_, body)
                     THEN {x \in Outcomes : x.email_valid} ELSE {AllFine} :
             LET r == webhook_step(store, from_, body, o)
             IN  /\ SESSIONS' = r.store
                 /\ resp' = r.resp
                 /\ submitted' = r.submitted
                 /\ mail' = r.mail
        /\ req' = [endpoint |-> "webhook", from |-> from_, at |-> now, popped |-> {}]
        /\ UNCHANGED <<now, sendgrid_on, _sessions, inflight, quote_call>>

\* POST /twilio/webhook without From
TwilioWebhookNoFrom ==
    /\ _sessions = EmptyDict
    /\ req.endpoint \in {"none", "webhook"}
    /\ req' = [endpoint |-> "webhook", from |-> <<>>, at |-> now, popped |-> {}]
    /\ resp' = [kind |-> "from_empty", detail |-> "none"]
    /\ submitted' = NoSubmit
    /\ mail' = NoMail
    /\ UNCHANGED <<now, sendgrid_on, _sessions, SESSIONS, inflight, quote_call>>

\* POST /flow/submit: 200 when flow_submit returns, 502 with the detail for its
\* HTTPException; any other exception leaves the handler as it is and the
\* framework answers 500 without the detail
FlowSubmit(payload, o) ==
    LET r == flow_submit(payload, o)
    IN  /\ _sessions = EmptyDict
        /\ SESSIONS = EmptyDict
        /\ req.endpoint \in {"none", "flow_submit"}
        /\ req' = [endpoint |-> "flow_submit", from |-> payload.seller_phone, at |-> now,
                   popped |-> {}]
        /\ resp' = [kind |-> IF r.raised = "none" THEN "200"
                             ELSE IF r.raised = "HTTPException" THEN "502" ELSE "500",
                    detail |-> IF r.raised = "Exception" THEN "none" ELSE r.detail]
        /\ submitted' = r.submitted
        /\ mail' = r.mail
        /\ UNCHANGED <<now, sendgrid_on, _sessions, SESSIONS, inflight, quote_call>>

Next ==
    \/ Tick
    \/ \E seller \in WA_SENDERS, body \in WA_BODIES : TwilioWhatsapp(seller, body)
    \/ \E from_raw \in WH_SENDERS, body \in WH_BODIES : TwilioWebhook(from_raw, body)
    \/ TwilioWebhookNoFrom
    \/ \E payload \in FS_PAYLOADS, o \in {x \in Outcomes : x.email_valid} :
          FlowSubmit(payload, o)

Spec == Init /\ [][Next]_vars

---------------------------------------------------------------------------
(* compute_quote on its own: one call on a quantity map, with the rounding *)
(* errors its float operations make                                        *)

QUOTE_SKUS == {"lamp_smart", "relay_2ch", "custom"}

QUOTE_QTYS == {-1, 0, 1, 2, 3, 7}

QUOTE_ENTRIES == [sku : QUOTE_SKUS, qty : QUOTE_QTYS]

\* the quantity maps: up to two keys, in either insertion order
QUOTE_INPUTS ==
    {<<>>} \cup {<<e>> : e \in QUOTE_ENTRIES}
           \cup {p \in QUOTE_ENTRIES \X QUOTE_ENTRIES : p[1].sku # p[2].sku}

QuoteInit ==
    /\ Boot
    /\ quote_call \in [items : QUOTE_INPUTS, err : FloatErrors, out : {<<>>}]

\* quote = compute_quote(items)
ComputeQuote ==
    /\ quote_call.out = <<>>
    /\ quote_call' = [quote_call EXCEPT
                         !.out = <<compute_quote(quote_call.items, quote_call.err)>>]
    /\ UNCHANGED <<now, sendgrid_on, _sessions, SESSIONS, req, resp, submitted, mail>>
    /\ UNCHANGED inflight

NextQuote == ComputeQuote

QuoteSpec == QuoteInit /\ [][NextQuote]_vars

---------------------------------------------------------------------------
(* Concurrent delivery.  Both chat handlers are coroutines on one event    *)
(* loop: a request is parked at its only await (request.form() /           *)
(* request.body()), and once resumed it runs to its return without another *)
(* await, the session lookup included.                                     *)

\* message bodies delivered concurrently
CONC_WA_BODIES == {<<"1">>, <<"2">>, <<"A", "l">>, T_email_upper, T_menu, T_cancelar}

CONC_WH_BODIES == {T_nova, T_email_upper, <<"@", ".">>,
                   <<"1", "2", "3", "4", "5", "6", "7", "8">>,
                   <<"0">>, <<"s">>, T_cancelar}

\* a handler that keeps the session it saw when the request came
read_store_bug(at_arrival, at_resume) == at_arrival

\* the store a resumed handler works on: the lookup comes after the await
read_store(at_arrival, at_resume) == at_resume

\* the body of twilio_whatsapp after the await, on a store
wa_serve(sessions, seller, body, o) ==
    LET incoming == _normalize_text(body)
        store    == _get_session(sessions, seller)
        r        == whatsapp_step(store[seller], seller, incoming, o)
    IN  [store |-> [store EXCEPT ![seller] = r.s], resp |-> r.resp,
         submitted |-> r.submitted, mail |-> r.mail]

\* the body of twilio_webhook after the await, on a store (From is not empty)
wh_serve(sessions, from_raw, body_raw, o) ==
    LET from_ == strip(from_raw)
    IN  webhook_step(get_session(sessions, from_), from_, strip(body_raw), o)

\* a request reaches the server and waits for its form / body
Arrive(endpoint, from, body) ==
    /\ Len(inflight.pending) < MaxInFlight
    /\ inflight.pending # <<>> =>
          inflight.ran = <<>> /\ inflight.pending[1].endpoint = endpoint
    /\ req.endpoint \in {"none", endpoint}
    /\ endpoint = "whatsapp" => SESSIONS = EmptyDict
    /\ endpoint = "webhook" => _sessions = EmptyDict
    /\ inflight' =
          [pending |-> Append(inflight.pending,
                              [endpoint |-> endpoint, from |-> from, body |-> body]),
           base    |-> IF inflight.pending = <<>>
                       THEN [wa |-> _sessions, wh |-> SESSIONS] ELSE inflight.base,
           ran     |-> <<>>]
    /\ UNCHANGED <<now, sendgrid_on, _sessions, SESSIONS, req, resp, submitted, mail>>
    /\ UNCHANGED quote_call

\* the pending requests without the i-th
without(pending, i) == SubSeq(pending, 1, i - 1) \o SubSeq(pending, i + 1, Len(pending))

\* the i-th pending request has run
resumed(i) ==
    [inflight EXCEPT !.pending = without(inflight.pending, i),
                     !.ran = Append(inflight.ran, inflight.pending[i])]

\* the event loop resumes a parked /twilio/whatsapp request: it runs to its return
ResumeWhatsapp(i) ==
    /\ i \in 1..Len(inflight.pending)
    /\ inflight.pending[i].endpoint = "whatsapp"
    /\ LET r   == inflight.pending[i]
           out == wa_serve(read_store(inflight.base.wa, _sessions), r.from, r.body, AllFine)
       IN  /\ _sessions' = out.store
           /\ resp' = out.resp
           /\ submitted' = out.submitted
           /\ mail' = out.mail
           /\ req' = [endpoint |-> "whatsapp", from |-> r.from, at |-> now,
                      popped |-> DOMAIN _sessions \ DOMAIN _cleanup_sessions(_sessions)]
    /\ inflight' = resumed(i)
    /\ UNCHANGED <<now, sendgrid_on, SESSIONS, quote_call>>

\* the event loop resumes a parked /twilio/webhook request: it runs to its return
ResumeWebhook(i) ==
    /\ i \in 1..Len(inflight.pending)
    /\ inflight.pending[i].endpoint = "webhook"
    /\ LET r   == inflight.pending[i]
           out == wh_serve(read_store(inflight.base.wh, SESSIONS), r.from, r.body, AllFine)
       IN  /\ SESSIONS' = out.store
           /\ resp' = out.resp
           /\ submitted' = out.submitted
           /\ mail' = out.mail
           /\ req' = [endpoint |-> "webhook", from |-> strip(r.from), at |-> now,
                      popped |-> {}]
    /\ inflight' = resumed(i)
    /\ UNCHANGED <<now, sendgrid_on, _sessions, quote_call>>

NextConcurrent ==
    \/ \E seller \in WA_SENDERS, body \in CONC_WA_BODIES : Arrive("whatsapp", seller, body)
    \/ \E from_raw \in WH_SENDERS, body \in CONC_WH_BODIES : Arrive("webhook", from_raw, body)
    \/ \E i \in 1..MaxInFlight : ResumeWhatsapp(i)
    \/ \E i \in 1..MaxInFlight : ResumeWebhook(i)

ConcurrentSpec == Init /\ [][NextConcurrent]_vars

---------------------------------------------------------------------------
(* Vocabulary of the properties *)

\* the step is a request to the endpoint (every request leaves the clock alone)
Handled(endpoint) == req'.endpoint = endpoint /\ now' = now

\* the request's pipeline started and render or send raised
Raised == submitted.called /\ mail.status \in {"none", "error"}

\* the live (not expired) whatsapp session of a sender in a state
LiveIn(seller, state) ==
    /\ seller \in DOMAIN _sessions
    /\ ~expired(_sessions[seller])
    /\ _sessions[seller].state = state

\* the commands the wizard documents as global
DocumentedGlobal == {T_cancelar, T_cancel, T_menu, T_inicio, T_start}

\* the seller phone of the request
SellerPhone == remove_all(remove_all(req.from, T_whatsapp), <<" ">>)

\* the draft part of a linear session
LinearDraft(s) == [client |-> s.client, items |-> s.items, notes |-> s.notes]

\* the elements of a sequence
Range(seq) == {seq[i] : i \in 1..Len(seq)}

---------------------------------------------------------------------------
(* Properties *)

\* C1: in both wizards, when render or send raises during a confirm, the
\* session is still in its confirmation state afterwards (SUMMARY / step
\* confirm), every draft field is what it was before and the failure is told.
C1_FailedConfirmKeepsDraft ==
    [][ /\ (Handled("whatsapp") /\ Raised') =>
             LET k == req'.from
             IN  /\ LiveIn(k, "SUMMARY")
                 /\ _sessions'[k].state = "SUMMARY"
                 /\ _sessions'[k].draft = _sessions[k].draft
                 /\ resp'.kind = "submit_failed"
        /\ (Handled("webhook") /\ Raised') =>
             LET k == req'.from
             IN  /\ k \in DOMAIN SESSIONS
                 /\ SESSIONS[k].step = "confirm"
                 /\ k \in DOMAIN SESSIONS'
                 /\ SESSIONS'[k].step = "confirm"
                 /\ LinearDraft(SESSIONS'[k]) = LinearDraft(SESSIONS[k])
                 /\ resp'.kind = "send_failed"
      ]_vars

\* C1 witness: the linear wizard after a send that raised, still at confirm
C1_Witness ==
    /\ req.endpoint = "webhook"
    /\ Raised
    /\ mail.status = "error"
    /\ req.from \in DOMAIN SESSIONS
    /\ SESSIONS[req.from].step = "confirm"
    /\ SESSIONS[req.from].client.email = T_email_upper

\* C2: in /twilio/whatsapp, a send that returns sent = false leaves the session
\* in SUMMARY with the draft and tells the failure; the success reply is given
\* only when the mail was sent.
C2_UnsentMailKeepsSummary ==
    [][ /\ (Handled("whatsapp") /\ mail'.status = "dry_run") =>
             LET k == req'.from
             IN  /\ LiveIn(k, "SUMMARY")
                 /\ _sessions'[k].state = "SUMMARY"
                 /\ _sessions'[k].draft = _sessions[k].draft
                 /\ resp'.kind = "submit_failed"
        /\ (Handled("whatsapp") /\ resp'.kind = "sent_ok") => mail'.status = "sent"
      ]_vars

\* C3: a cancel command (cancelar / cancel, any case, trimmed) handled in any
\* state leaves /twilio/whatsapp in MENU with an empty draft, and removes the
\* /twilio/webhook session, so that the next lookup starts from step idle
\* with empty client, items and notes.
C3_CancelResets ==
    [][ /\ \A seller \in WA_SENDERS, body \in WA_BODIES :
             (lower(strip(body)) \in {T_cancelar, T_cancel} /\ TwilioWhatsapp(seller, body))
             => /\ _sessions'[seller].state = "MENU"
                /\ _sessions'[seller].draft.client_name = None
                /\ _sessions'[seller].draft.client_email = None
                /\ _sessions'[seller].draft.selected_keys = <<>>
                /\ DOMAIN _sessions'[seller].draft.quantities = {}
        /\ \A from_raw \in WH_SENDERS, body \in WH_BODIES :
             (lower(strip(body)) \in {T_cancelar, T_cancel} /\ TwilioWebhook(from_raw, body))
             => LET k == strip(from_raw)
                    n == get_session(SESSIONS', k)[k]
                IN  /\ k \notin DOMAIN SESSIONS'
                    /\ n.step = "idle"
                    /\ \A f \in DOMAIN n.client : n.client[f] = <<>>
                    /\ \A i \in 1..Len(n.items) : n.items[i].qty = 0
                    /\ n.notes = <<>>
      ]_vars

\* C3 witness: a cancel was handled and the whatsapp session is in MENU
C3_Witness ==
    /\ req.endpoint = "whatsapp"
    /\ resp.kind = "cancelled"
    /\ _sessions[req.from].state = "MENU"
    /\ _sessions[req.from].draft = EmptyDraft

\* C4: in state QTY with a pending item k, a reply whose first integer n is
\* in 1..100000 records n as the quantity of k; a reply without digits, or
\* whose first integer is above 100000, leaves the state and the draft alone.
C4_QtyReplyRecorded ==
    [][ \A seller \in WA_SENDERS, body \in WA_BODIES :
          (LiveIn(seller, "QTY") /\ TwilioWhatsapp(seller, body)
             /\ _next_qty_key(_sessions[seller].draft) # "None")
          => LET inc == strip(body)
                 m   == findall_digits(inc, <<>>)
                 k   == _next_qty_key(_sessions[seller].draft)
                 s2  == _sessions'[seller]
             IN  IF m # <<>> /\ int(m[1]) \in 1..QTY_MAX
                 THEN k \in DOMAIN s2.draft.quantities /\ s2.draft.quantities[k] = int(m[1])
                 ELSE IF \/ m = <<>> /\ lower(inc) \notin DocumentedGlobal
                         \/ m # <<>> /\ int(m[1]) > QTY_MAX
                 THEN s2.state = "QTY" /\ s2.draft = _sessions[seller].draft
                 ELSE TRUE
      ]_vars

\* C5: in state SELECT_ITEMS, a reply with at least one integer in 1..8 sets
\* selected_keys to the catalog keys of its in-range integers (first-seen
\* order, no duplicates), empties the quantities and moves to QTY; a reply
\* with no in-range integer leaves the state and the draft alone.
C5_SelectionStored ==
    [][ \A seller \in WA_SENDERS, body \in WA_BODIES :
          (LiveIn(seller, "SELECT_ITEMS") /\ TwilioWhatsapp(seller, body))
          => LET inc   == strip(body)
                 nums  == findall_digits(inc, <<>>)
                 hits  == SelectSeq(nums, LAMBDA n : int(n) \in 1..Len(CATALOG))
                 s2    == _sessions'[seller]
             IN  IF hits # <<>>
                 THEN /\ Range(s2.draft.selected_keys) = {CATALOG[int(hits[i])] : i \in 1..Len(hits)}
                      /\ s2.draft.selected_keys = chosen_keys(inc)
                      /\ DOMAIN s2.draft.quantities = {}
                      /\ s2.state = "QTY"
                 ELSE IF lower(inc) \notin DocumentedGlobal
                 THEN s2.state = "SELECT_ITEMS" /\ s2.draft = _sessions[seller].draft
                 ELSE TRUE
      ]_vars

\* C6: in state QTY, answering 0 for the pending item k takes k out of
\* selected_keys and records no quantity for it, so the quantity map a confirm
\* builds has no entry for k; dropping k again changes nothing.
C6_ZeroDropsItem ==
    [][ \A seller \in WA_SENDERS, body \in WA_BODIES :
          (LiveIn(seller, "QTY") /\ TwilioWhatsapp(seller, body)
             /\ _next_qty_key(_sessions[seller].draft) # "None"
             /\ lower(strip(body)) \notin WA_CANCEL \cup WA_MENU
             /\ findall_digits(strip(body), <<>>) # <<>>
             /\ int(findall_digits(strip(body), <<>>)[1]) = 0)
          => LET d  == _sessions[seller].draft
                 k  == _next_qty_key(d)
                 d2 == _sessions'[seller].draft
             IN  /\ k \notin Range(d2.selected_keys)
                 /\ k \notin DOMAIN d2.quantities
                 /\ d2.selected_keys = SelectSeq(d.selected_keys, LAMBDA x : x # k)
                 /\ d2.quantities = d.quantities
                 /\ CATALOG_TO_SKU[k] \notin item_keys(confirm_items(d2))
                 /\ drop_key(d2, k) = d2
      ]_vars

\* C6 witness: every selected item was answered 0, the summary shows none
C6_Witness ==
    /\ req.endpoint = "whatsapp"
    /\ resp.kind = "summary"
    /\ _sessions[req.from].state = "SUMMARY"
    /\ _sessions[req.from].draft.selected_keys = <<>>
    /\ _sessions[req.from].draft.client_email = T_email_upper

\* C7: whenever a proposal email is sent and the seller email resolved from
\* the directory equals the client's email (any case), the mail has no CC.
C7_NoCcWhenSellerIsClient ==
    (/\ mail.status = "sent"
     /\ truthy(resolve_seller_email(SellerPhone))
     /\ lower(strip(resolve_seller_email(SellerPhone))) = lower(strip(mail.to)))
    => mail.cc = None

\* C8: a message from a sender whose whatsapp session is older than the TTL
\* drops the stale record and is handled as from a fresh session: the outcome
\* is that of the same message on a new session in MENU with an empty draft.
C8_StaleSessionIsFresh ==
    [][ \A seller \in WA_SENDERS, body \in WA_BODIES :
          (/\ seller \in DOMAIN _sessions
           /\ now - _sessions[seller].updated_at > SESSION_TTL_SECONDS
           /\ TwilioWhatsapp(seller, body))
          => LET r == whatsapp_step([state |-> "MENU", draft |-> EmptyDraft,
                                     updated_at |-> now], seller, strip(body), AllFine)
             IN  /\ seller \in req'.popped
                 /\ _sessions'[seller] = r.s
                 /\ resp' = r.resp
                 /\ _sessions'[seller].draft = EmptyDraft
                 /\ _sessions'[seller].state \in {"MENU", "CLIENT_NAME"}
      ]_vars

\* C8 witness: the request dropped the sender's own stale session
C8_Witness ==
    /\ req.endpoint = "whatsapp"
    /\ req.from \in req.popped
    /\ req.at = now
    /\ _sessions[req.from].draft = EmptyDraft

\* C9: a whatsapp session is dropped by expiry only when more than the TTL has
\* passed since the last message handled from its sender, whether that
\* message was accepted or re-prompted.
C9_ExpiryOnlyAfterIdleTTL ==
    [][ \A k \in DOMAIN _sessions :
          (/\ req.endpoint = "whatsapp"
           /\ req.from = k
           /\ now - req.at <= SESSION_TTL_SECONDS
           /\ Handled("whatsapp"))
          => k \notin req'.popped
      ]_vars

\* C10: a message to /twilio/webhook from a sender whose session has seen no
\* message for longer than the TTL is handled as from a new session at step
\* idle with an empty draft.
C10_LinearLookupExpires ==
    [][ \A from_raw \in WH_SENDERS, body \in WH_BODIES :
          LET k == strip(from_raw)
          IN  (/\ k \in DOMAIN SESSIONS
               /\ req.endpoint = "webhook"
               /\ req.from = k
               /\ now - req.at > SESSION_TTL_SECONDS
               /\ TwilioWebhook(from_raw, body))
              => \E o \in Outcomes :
                    LET r == webhook_step(get_session(reset_session(SESSIONS, k), k),
                                          k, strip(body), o)
                    IN  SESSIONS' = r.store /\ resp' = r.resp
      ]_vars

---------------------------------------------------------------------------
(* Concurrent delivery *)

\* the /twilio/whatsapp store after the requests of a sequence, one after the other
RECURSIVE WaSerial(_, _)
WaSerial(store, requests) ==
    IF requests = <<>> THEN store
    ELSE LET r == Head(requests)
         IN  WaSerial(IF r.endpoint = "whatsapp"
                      THEN wa_serve(store, r.from, r.body, AllFine).store ELSE store,
                      Tail(requests))

\* the /twilio/webhook store after the requests of a sequence, one after the other
RECURSIVE WhSerial(_, _)
WhSerial(store, requests) ==
    IF requests = <<>> THEN store
    ELSE LET r == Head(requests)
         IN  WhSerial(IF r.endpoint = "webhook"
                      THEN wh_serve(store, r.from, r.body, AllFine).store ELSE store,
                      Tail(requests))

---------------------------------------------------------------------------
(* compute_quote *)

\* an amount of r reais and c cents, in cents
Cents(m) == m.r * 100 + m.c

\* n / d rounded to the nearest whole number, ties to even
RoundDiv(n, d) ==
    LET q == n \div d
        twice == 2 * (n % d)
    IN  IF twice > d \/ (twice = d /\ q % 2 = 1) THEN q + 1 ELSE q

\* the sum of qty * unit price over the entries i.. of a map that are in the
\* catalog with a quantity above 0
RECURSIVE CatalogSum(_, _)
CatalogSum(items, i) ==
    IF i > Len(items) THEN 0
    ELSE (IF items[i].qty > 0 /\ items[i].sku \in DOMAIN UNIT_PRICES
          THEN items[i].qty * UNIT_PRICES[items[i].sku] ELSE 0)
         + CatalogSum(items, i + 1)

\* the call was made
Quoted == quote_call.out # <<>>

\* C14: the reported totals satisfy grand_total = material_total + labor_total
\* and labor_total = 0.40 x material_total, in cents.
C14_TotalsAddUp ==
    Quoted =>
        LET t == quote_call.out[1].totals
        IN  /\ Cents(t.grand_total) = Cents(t.material_total) + Cents(t.labor_total)
            /\ Cents(t.labor_total) * 100 = Cents(t.material_total) * 40

\* C14 witness: two priced lines, the labor sum rounded down by the floats
C14_Witness ==
    /\ Quoted
    /\ quote_call.items = <<[sku |-> "lamp_smart", qty |-> 7], [sku |-> "relay_2ch", qty |-> 3]>>
    /\ quote_call.err.labor = -1
    /\ Cents(quote_call.out[1].totals.grand_total) = 235200

\* C15: for a map of non-negative quantities the breakdown has one line per
\* entry with a quantity above 0, in the order of the map and none for a
\* quantity of 0; a key that is not in the catalog is priced at zero; and
\* material_total is the sum of quantity x unit price over the catalog keys
\* with a quantity above 0.
C15_BreakdownAndMaterial ==
    (Quoted /\ \A i \in 1..Len(quote_call.items) : quote_call.items[i].qty >= 0) =>
        LET items  == quote_call.items
            lines  == quote_call.out[1].breakdown
            kept   == SelectSeq(items, LAMBDA e : e.qty > 0)
        IN  /\ Len(lines) = Len(kept)
            /\ \A i \in 1..Len(lines) :
                  /\ lines[i].sku = kept[i].sku
                  /\ lines[i].qty = kept[i].qty
                  /\ lines[i].qty > 0
                  /\ lines[i].sku \notin DOMAIN UNIT_PRICES =>
                        Cents(lines[i].unit_price) = 0 /\ Cents(lines[i].material) = 0
                  /\ lines[i].sku \in DOMAIN UNIT_PRICES =>
                        Cents(lines[i].material) = lines[i].qty * UNIT_PRICES[lines[i].sku] * 100
            /\ Cents(quote_call.out[1].totals.material_total) = CatalogSum(items, 1) * 100

\* C15 witness: a key outside the catalog before a catalog key, both priced
C15_Witness ==
    /\ Quoted
    /\ quote_call.items = <<[sku |-> "custom", qty |-> 3], [sku |-> "lamp_smart", qty |-> 1]>>
    /\ Len(quote_call.out[1].breakdown) = 2
    /\ Cents(quote_call.out[1].totals.material_total) = 18000

\* C16: cash_total is grand_total x 0.90 and card_installment_value is
\* grand_total / 3, each rounded to the cent; {lamp_smart: 2} gives 360.00,
\* 144.00, 504.00, 453.60 and 168.00.
C16_CashAndInstallment ==
    Quoted =>
        LET t == quote_call.out[1].totals
        IN  /\ Cents(t.cash_total) = RoundDiv(Cents(t.grand_total) * 90, 100)
            /\ Cents(t.card_installment_value) = RoundDiv(Cents(t.grand_total), 3)
            /\ quote_call.items = <<[sku |-> "lamp_smart", qty |-> 2]>> =>
                  /\ Cents(t.material_total) = 36000
                  /\ Cents(t.labor_total) = 14400
                  /\ Cents(t.grand_total) = 50400
                  /\ Cents(t.cash_total) = 45360
                  /\ Cents(t.card_installment_value) = 16800

\* C16 witness: the scenario {lamp_smart: 2} with every float error upwards
C16_Witness ==
    /\ Quoted
    /\ quote_call.items = <<[sku |-> "lamp_smart", qty |-> 2]>>
    /\ quote_call.err = [labor |-> 1, grand |-> 1, cash |-> 1, inst |-> 1]
    /\ Cents(quote_call.out[1].totals.cash_total) = 45360

---------------------------------------------------------------------------
(* The wizards, continued *)

\* the resume command of state MENU
ResumeCommands == {<<"2">>, T_continuar, T_retomar}

\* the selected keys of a draft that have no quantity yet, by position
Unanswered(d) == {i \in 1..Len(d.selected_keys) : d.selected_keys[i] \notin DOMAIN d.quantities}

\* the state of the first incomplete field: name, email, selection, quantities
FirstIncomplete(d) ==
    IF ~truthy(d.client_name) THEN "CLIENT_NAME"
    ELSE IF ~truthy(d.client_email) THEN "CLIENT_EMAIL"
    ELSE IF d.selected_keys = <<>> THEN "SELECT_ITEMS"
    ELSE IF Unanswered(d) # {} THEN "QTY"
    ELSE "SUMMARY"

\* C12: in state MENU the resume command moves to the state of the first
\* incomplete field of the draft (name, email, selection, quantity of the
\* first selected item without one, else summary) and changes no draft field.
C12_ResumeFirstIncomplete ==
    [][ \A seller \in WA_SENDERS, body \in WA_BODIES :
          (/\ LiveIn(seller, "MENU")
           /\ lower(strip(body)) \in ResumeCommands
           /\ TwilioWhatsapp(seller, body))
          => LET d  == _sessions[seller].draft
                 s2 == _sessions'[seller]
             IN  /\ s2.state = FirstIncomplete(d)
                 /\ s2.draft = d
                 /\ s2.state = "QTY" =>
                       resp'.detail =
                          d.selected_keys[CHOOSE i \in Unanswered(d) :
                                             \A j \in Unanswered(d) : i <= j]
      ]_vars

\* C12 witness: a resume went to QTY for the second selected item, the first
\* one having its quantity already
C12_Witness ==
    /\ req.endpoint = "whatsapp"
    /\ resp.kind = "resume_ask_qty"
    /\ resp.detail = "lampadas"
    /\ _sessions[req.from].state = "QTY"
    /\ _sessions[req.from].draft.selected_keys = <<"sensores", "lampadas">>
    /\ DOMAIN _sessions[req.from].draft.quantities = {"sensores"}

\* C13: menu, inicio and start (any case, trimmed), handled in any state of a
\* live session, set the state to MENU and leave every draft field as it was.
C13_MenuKeepsDraft ==
    [][ \A seller \in WA_SENDERS, body \in WA_BODIES :
          (/\ seller \in DOMAIN _sessions
           /\ ~expired(_sessions[seller])
           /\ lower(strip(body)) \in {T_menu, T_inicio, T_start}
           /\ TwilioWhatsapp(seller, body))
          => /\ _sessions'[seller].state = "MENU"
             /\ _sessions'[seller].draft.client_name = _sessions[seller].draft.client_name
             /\ _sessions'[seller].draft.client_email = _sessions[seller].draft.client_email
             /\ _sessions'[seller].draft.selected_keys = _sessions[seller].draft.selected_keys
             /\ _sessions'[seller].draft.quantities = _sessions[seller].draft.quantities
      ]_vars

\* C13 witness: a menu command left a draft with quantities in MENU
C13_Witness ==
    /\ req.endpoint = "whatsapp"
    /\ resp.kind = "menu_command"
    /\ _sessions[req.from].state = "MENU"
    /\ _sessions[req.from].draft.client_email = T_email_upper
    /\ _sessions[req.from].draft.selected_keys # <<>>
    /\ DOMAIN _sessions[req.from].draft.quantities # {}

\* C17: on /flow/submit, whenever the renderer or the mail transport fails the
\* answer is the handler's error response (502) and carries the failure detail.
C17_SubmitFailureConverted ==
    [][ (Handled("flow_submit") /\ Raised') =>
            (resp'.kind = "502" /\ resp'.detail # "none")
      ]_vars

\* C18: every quantity handed to compute_quote, on any path, is in 0..100000.
C18_PricedQuantitiesInRange ==
    submitted.called =>
        \A i \in 1..Len(submitted.items) : submitted.items[i].qty \in 0..100000

\* the replies each state of /twilio/whatsapp recognises as commands
MenuCommands == {<<"1">>, T_iniciar, T_nova, T_novo} \cup ResumeCommands \cup {<<"3">>}

SummaryCommands == {T_confirmar, T_confirm, <<"1">>, T_editar, T_edit, <<"2">>}

\* the reply is one the state rejects
Rejected(state, inc) ==
    /\ lower(inc) \notin DocumentedGlobal \cup {T_cancela}
    /\ \/ state = "CLIENT_NAME" /\ Len(inc) < 2
       \/ state = "CLIENT_EMAIL" /\ ~_is_email(inc)
       \/ state = "MENU" /\ lower(inc) \notin MenuCommands
       \/ state = "SUMMARY" /\ lower(inc) \notin SummaryCommands

\* C19: a rejected reply (a name shorter than 2 characters, a reply that is no
\* email, a reply that is no command of MENU or SUMMARY) leaves the state and
\* every draft field of the session as they were.
C19_RejectedReplyIsNoOp ==
    [][ \A seller \in WA_SENDERS, body \in WA_BODIES :
          (/\ seller \in DOMAIN _sessions
           /\ ~expired(_sessions[seller])
           /\ Rejected(_sessions[seller].state, strip(body))
           /\ TwilioWhatsapp(seller, body))
          => /\ _sessions'[seller].state = _sessions[seller].state
             /\ _sessions'[seller].draft = _sessions[seller].draft
      ]_vars

\* C20: at step client_email of /twilio/webhook a reply is stored as the email
\* and the step advances to client_phone exactly when the reply has the shape
\* local-part@domain.tld with a tld of 2 characters or more; any other reply
\* is re-prompted and leaves the session as it was.
C20_EmailShapeChecked ==
    [][ \A i \in 1..MaxInFlight :
          (/\ ResumeWebhook(i)
           /\ strip(inflight.pending[i].from) \in DOMAIN SESSIONS
           /\ SESSIONS[strip(inflight.pending[i].from)].step = "client_email"
           /\ strip(lower(inflight.pending[i].body)) \notin WH_CANCEL \cup WH_HELP)
          => LET k    == strip(inflight.pending[i].from)
                 body == strip(inflight.pending[i].body)
             IN  IF _is_email(body)
                 THEN /\ SESSIONS'[k].step = "client_phone"
                      /\ SESSIONS'[k].client.email = body
                 ELSE /\ SESSIONS'[k] = SESSIONS[k]
                      /\ resp'.kind = "email_invalid"
      ]_vars

---------------------------------------------------------------------------
(* The wizards: frames, invariants and progress *)

\* the confirm replies of SUMMARY and of step confirm
WaConfirmWords == {T_confirmar, T_confirm, <<"1">>}

WhConfirmWords == {T_sim, <<"s">>, T_yes, <<"y">>}

\* C21: in SUMMARY the edit command moves to SELECT_ITEMS with client_name and
\* client_email as they were, and every reply handled in SELECT_ITEMS or QTY
\* that is no cancel command leaves the two fields as they were.
C21_EditKeepsClient ==
    [][ \A seller \in WA_SENDERS, body \in WA_BODIES :
          LET cmd == lower(strip(body))
              d   == _sessions[seller].draft
              s2  == _sessions'[seller]
          IN  /\ (/\ LiveIn(seller, "SUMMARY")
                  /\ cmd \in {T_editar, T_edit, <<"2">>}
                  /\ TwilioWhatsapp(seller, body))
                 => /\ s2.state = "SELECT_ITEMS"
                    /\ s2.draft.client_name = d.client_name
                    /\ s2.draft.client_email = d.client_email
              /\ (/\ LiveIn(seller, "SELECT_ITEMS") \/ LiveIn(seller, "QTY")
                  /\ cmd \notin {T_cancelar, T_cancel, T_cancela}
                  /\ TwilioWhatsapp(seller, body))
                 => /\ s2.draft.client_name = d.client_name
                    /\ s2.draft.client_email = d.client_email
      ]_vars

\* C22: a chat handler calls the mail transport only for a confirm reply in
\* the confirmation state; a mail that was sent leaves no draft behind (the
\* whatsapp draft is emptied, the linear session is removed), and handling a
\* cancel calls no transport: what a cancel discards was never sent.
C22_MailOnlyOnConfirm ==
    [][ /\ \A seller \in WA_SENDERS, body \in WA_BODIES :
             TwilioWhatsapp(seller, body) =>
                /\ mail'.status # "none" =>
                      /\ LiveIn(seller, "SUMMARY")
                      /\ lower(strip(body)) \in WaConfirmWords
                /\ mail'.status = "sent" => _sessions'[seller].draft = EmptyDraft
                /\ lower(strip(body)) \in {T_cancelar, T_cancel, T_cancela} => mail' = NoMail
        /\ \A from_raw \in WH_SENDERS, body \in WH_BODIES :
             TwilioWebhook(from_raw, body) =>
                /\ mail'.status # "none" =>
                      /\ strip(from_raw) \in DOMAIN SESSIONS
                      /\ SESSIONS[strip(from_raw)].step = "confirm"
                      /\ strip(lower(body)) \in WhConfirmWords
                /\ mail'.status = "sent" => strip(from_raw) \notin DOMAIN SESSIONS'
                /\ strip(lower(body)) \in WH_CANCEL => mail' = NoMail
      ]_vars

\* C22 witness: a whatsapp confirm sent the mail and the draft is gone
C22_Witness ==
    /\ req.endpoint = "whatsapp"
    /\ mail.status = "sent"
    /\ mail.to = EmailStr(T_email_upper)
    /\ resp.kind = "sent_ok"
    /\ _sessions[req.from].state = "MENU"
    /\ _sessions[req.from].draft = EmptyDraft

\* C23: in every whatsapp session selected_keys has no duplicates and only
\* catalog keys, every key of the quantity map is selected, and every
\* quantity is in 1..100000.
C23_DraftWellFormed ==
    \A k \in DOMAIN _sessions :
        LET d == _sessions[k].draft
        IN  /\ \A i, j \in 1..Len(d.selected_keys) :
                  d.selected_keys[i] = d.selected_keys[j] => i = j
            /\ Range(d.selected_keys) \subseteq Range(CATALOG)
            /\ DOMAIN d.quantities \subseteq Range(d.selected_keys)
            /\ \A x \in DOMAIN d.quantities : d.quantities[x] \in 1..100000

\* C23 witness: the reply 3,1,3,9 selected two keys and the first has the
\* largest quantity
C23_Witness ==
    /\ Sender1 \in DOMAIN _sessions
    /\ _sessions[Sender1].state = "QTY"
    /\ _sessions[Sender1].draft.selected_keys = <<"sensores", "lampadas">>
    /\ DOMAIN _sessions[Sender1].draft.quantities = {"sensores"}
    /\ _sessions[Sender1].draft.quantities["sensores"] = 100000

\* C24: a session in SELECT_ITEMS, QTY or SUMMARY has a client_name of 2
\* characters or more and a client_email of the email shape; in SUMMARY every
\* selected key has a quantity; and the state is one of the six states of the
\* wizard, never SUBMIT.
C24_StateImpliesDraft ==
    \A k \in DOMAIN _sessions :
        LET s == _sessions[k]
            d == s.draft
        IN  /\ s.state \in {"MENU", "CLIENT_NAME", "CLIENT_EMAIL",
                            "SELECT_ITEMS", "QTY", "SUMMARY"}
            /\ s.state \in {"SELECT_ITEMS", "QTY", "SUMMARY"} =>
                  /\ d.client_name # None
                  /\ Len(d.client_name) >= 2
                  /\ d.client_email # None
                  /\ _is_email(d.client_email)
            /\ s.state = "SUMMARY" =>
                  Range(d.selected_keys) \subseteq DOMAIN d.quantities

\* C24 witness: a confirm failed and the session is back in SUMMARY, complete
C24_Witness ==
    /\ req.endpoint = "whatsapp"
    /\ resp.kind = "submit_failed"
    /\ _sessions[req.from].state = "SUMMARY"
    /\ _sessions[req.from].draft.client_name = <<"A", "l">>
    /\ _sessions[req.from].draft.selected_keys # <<>>

\* C25: the quantity map a whatsapp confirm hands to the pipeline is not
\* empty: it has one SKU per selected key, with the quantity collected for
\* it, and a quantity above 0.
C25_ConfirmedMapNotEmpty ==
    [][ \A seller \in WA_SENDERS, body \in WA_BODIES :
          (TwilioWhatsapp(seller, body) /\ submitted'.called) =>
             LET d     == _sessions[seller].draft
                 items == submitted'.items
             IN  /\ items # <<>>
                 /\ Len(items) = Len(d.selected_keys)
                 /\ \A i \in 1..Len(items) :
                       /\ items[i].sku = CATALOG_TO_SKU[d.selected_keys[i]]
                       /\ items[i].qty = d.quantities[d.selected_keys[i]]
                 /\ \E i \in 1..Len(items) : items[i].qty > 0
      ]_vars

\* C26: a mail that was sent resets the sender's session in the same request,
\* and the request of that sender resumed next, a duplicate of the confirm or
\* any other message, sends nothing.
C26_DuplicateConfirmSendsNothing ==
    [][ \A i \in 1..MaxInFlight :
          /\ ResumeWhatsapp(i) =>
                /\ mail'.status = "sent" =>
                      /\ _sessions'[req'.from].state = "MENU"
                      /\ _sessions'[req'.from].draft = EmptyDraft
                /\ (mail.status = "sent" /\ req.from = req'.from) => mail'.status = "none"
          /\ ResumeWebhook(i) =>
                /\ mail'.status = "sent" => req'.from \notin DOMAIN SESSIONS'
                /\ (mail.status = "sent" /\ req.from = req'.from) => mail'.status = "none"
      ]_vars

\* C26 witness: two confirms of one sender were in flight together in SUMMARY;
\* the first sent the mail, the second found the MENU and sent nothing
C26_Witness ==
    /\ sendgrid_on
    /\ inflight.pending = <<>>
    /\ Len(inflight.ran) = MaxInFlight
    /\ \A i \in 1..Len(inflight.ran) : inflight.ran[i].body = <<"1">>
    /\ Sender1 \in DOMAIN inflight.base.wa
    /\ inflight.base.wa[Sender1].state = "SUMMARY"
    /\ inflight.base.wa[Sender1].draft.selected_keys # <<>>
    /\ mail.status = "none"
    /\ _sessions[Sender1].draft = EmptyDraft

\* the reply is a quantity the QTY state accepts
AcceptedQty(inc) ==
    /\ lower(inc) \notin WA_CANCEL \cup WA_MENU
    /\ findall_digits(inc, <<>>) # <<>>
    /\ int(findall_digits(inc, <<>>)[1]) \in 0..100000

\* C27: a session in QTY has an unanswered item; an accepted quantity reply
\* answers the first unanswered item of the selection, leaves exactly one
\* unanswered item fewer, and the session is in SUMMARY exactly when none is
\* left, else still in QTY.
C27_QtyProgress ==
    [][ \A seller \in WA_SENDERS, body \in WA_BODIES :
          (LiveIn(seller, "QTY") /\ TwilioWhatsapp(seller, body)) =>
             LET d     == _sessions[seller].draft
                 s2    == _sessions'[seller]
                 first == d.selected_keys[CHOOSE i \in Unanswered(d) :
                                             \A j \in Unanswered(d) : i <= j]
             IN  /\ Unanswered(d) # {}
                 /\ AcceptedQty(strip(body)) =>
                       /\ Cardinality(Unanswered(s2.draft)) = Cardinality(Unanswered(d)) - 1
                       /\ \/ first \in DOMAIN s2.draft.quantities
                          \/ first \notin Range(s2.draft.selected_keys)
                       /\ \A x \in Range(d.selected_keys) \ {first} :
                             /\ x \in Range(s2.draft.selected_keys)
                             /\ x \in DOMAIN s2.draft.quantities <=> x \in DOMAIN d.quantities
                       /\ s2.state = IF Unanswered(s2.draft) = {} THEN "SUMMARY" ELSE "QTY"
      ]_vars

\* C27 witness: two items were selected and two accepted replies later the
\* session is in SUMMARY with a quantity for both
C27_Witness ==
    /\ req.endpoint = "whatsapp"
    /\ resp.kind = "summary"
    /\ _sessions[req.from].state = "SUMMARY"
    /\ _sessions[req.from].draft.selected_keys = <<"sensores", "lampadas">>
    /\ DOMAIN _sessions[req.from].draft.quantities = {"sensores", "lampadas"}

====
